---- MODULE Spec2Model ----
(***************************************************************************)
(* Model of tmp/pdfs/build_ios_system_dev_pdf.py: the Markdown block scan  *)
(* of build_pdf, the pipe-table parser and the inline markup translator.   *)
(*                                                                         *)
(* A Python str is a sequence of one-character strings.  The seven Unicode *)
(* dash variants are written as the tokens "U2010" .. "U2212", each one    *)
(* character of the text, and the backtick as the token "TICK".  Scan      *)
(* positions (i, j) are 0-based as in the source; sequences are 1-based,   *)
(* so md_lines[i] of the source is md_lines[i + 1] here.                   *)
(***************************************************************************)
EXTENDS Integers, Sequences, FiniteSets, TLC

VARIABLES
    md_lines,   \* build_pdf: the input lines
    i,          \* build_pdf: the scan position (0-based)
    story,      \* build_pdf: the layout directives appended so far
    blocks,     \* build_pdf: per gather, its kind, line range and locals
    skipped,    \* build_pdf: the line indexes consumed without a directive
    built,      \* build_pdf: doc.build(story) has been called
    tbl_lines,  \* _parse_table_rows: the argument lines
    rows,       \* _parse_table_rows: the returned rows
    tpc,        \* _parse_table_rows: "call" before, "done" after;
                \* "appended" once the table branch has appended to story
    text_in,    \* _inline_md_to_rl_markup: the argument text as passed
    text,       \* _inline_md_to_rl_markup: the normalized text
    pos,        \* _inline_md_to_rl_markup: the loop variable i
    out,        \* _inline_md_to_rl_markup: the list out
    runs,       \* _inline_md_to_rl_markup: per append, its kind and source range
    result,     \* _inline_md_to_rl_markup: the returned markup
    ipc         \* _inline_md_to_rl_markup: "start", "loop", "join", "done"

vars == <<md_lines, i, story, blocks, skipped, built, tbl_lines, rows, tpc,
          text_in, text, pos, out, runs, result, ipc>>

scanVars == <<md_lines, i, story, blocks, skipped, built>>
tableVars == <<tbl_lines, rows, tpc>>
inlineVars == <<text_in, text, pos, out, runs, result, ipc>>

----------------------------------------------------------------------------
(* Bounds *)

MaxLines == 3
MaxRows == 3
MaxText == 5

----------------------------------------------------------------------------
(* Python str primitives *)

\* str.isspace() / regex \s, over the characters of the model
IsSpace(c) == c \in {" ", "\t"}

IsDigit(c) == c \in {"0", "1", "2", "3", "4", "5", "6", "7", "8", "9"}

Min(S) == CHOOSE x \in S : \A y \in S : x <= y

RECURSIVE SkipSpace(_, _)
\* index of the first non-whitespace character at or after k, Len(s)+1 if none
SkipSpace(s, k) ==
    IF k > Len(s) THEN Len(s) + 1
    ELSE IF ~IsSpace(s[k]) THEN k
    ELSE SkipSpace(s, k + 1)

RECURSIVE LastNonSpaceUpTo(_, _)
\* index of the last non-whitespace character at or before k, 0 if none
LastNonSpaceUpTo(s, k) ==
    IF k = 0 THEN 0
    ELSE IF ~IsSpace(s[k]) THEN k
    ELSE LastNonSpaceUpTo(s, k - 1)

\* index of the last non-whitespace character, 0 if none
LastNonSpace(s) == LastNonSpaceUpTo(s, Len(s))

\* str.strip()
strip(s) == SubSeq(s, SkipSpace(s, 1), LastNonSpace(s))

\* str.rstrip()
rstrip(s) == SubSeq(s, 1, LastNonSpace(s))

\* s.startswith(p, k) with k a 1-based index
startswith(s, p, k) ==
    /\ k + Len(p) - 1 <= Len(s)
    /\ \A m \in 1..Len(p) : s[k + m - 1] = p[m]

RECURSIVE find(_, _, _)
\* s.find(p, k): the least 1-based index >= k where p occurs, 0 for -1
find(s, p, k) ==
    IF k + Len(p) - 1 > Len(s) THEN 0
    ELSE IF startswith(s, p, k) THEN k
    ELSE find(s, p, k + 1)

RECURSIVE Concat(_)
\* "".join(parts)
Concat(parts) ==
    IF parts = <<>> THEN <<>> ELSE Head(parts) \o Concat(Tail(parts))

RECURSIVE join(_, _)
\* sep.join(parts)
join(sep, parts) ==
    IF parts = <<>> THEN <<>>
    ELSE IF Len(parts) = 1 THEN Head(parts)
    ELSE Head(parts) \o sep \o join(sep, Tail(parts))

RECURSIVE SelectNonEmpty(_)
\* [p.strip() for p in parts if p.strip()]
SelectNonEmpty(parts) ==
    IF parts = <<>> THEN <<>>
    ELSE IF strip(Head(parts)) = <<>> THEN SelectNonEmpty(Tail(parts))
    ELSE <<strip(Head(parts))>> \o SelectNonEmpty(Tail(parts))

----------------------------------------------------------------------------
(* normalize_dashes and xml_escape *)

\* the character class without the minus sign
UNICODE_DASHES_RE_NoMinus ==
    {"U2010", "U2011", "U2012", "U2013", "U2014", "U2015"}

UNICODE_DASHES_RE ==
    {"U2010", "U2011", "U2012", "U2013", "U2014", "U2015", "U2212"}

\* the text returned as it is
normalize_dashes_None(s) == s

normalize_dashes(s) ==
    [k \in 1..Len(s) |-> IF s[k] \in UNICODE_DASHES_RE THEN "-" ELSE s[k]]

\* the escape that leaves > as it is
EscapeChar_NoGt(c) ==
    IF c = "&" THEN <<"&", "a", "m", "p", ";">>
    ELSE IF c = "<" THEN <<"&", "l", "t", ";">>
    ELSE <<c>>

\* xml.sax.saxutils.escape with no extra entities: &, < and > only
EscapeChar(c) ==
    IF c = "&" THEN <<"&", "a", "m", "p", ";">>
    ELSE IF c = "<" THEN <<"&", "l", "t", ";">>
    ELSE IF c = ">" THEN <<"&", "g", "t", ";">>
    ELSE <<c>>

\* the text appended as it is
xml_escape_None(s) == s

xml_escape(s) == Concat([k \in 1..Len(s) |-> EscapeChar(s[k])])

----------------------------------------------------------------------------
(* The six block-start patterns *)

RECURSIVE SkipHashes(_, _)
\* index of the first character at or after k that is no "#"
SkipHashes(s, k) ==
    IF k > Len(s) \/ s[k] # "#" THEN k ELSE SkipHashes(s, k + 1)

\* number of leading "#" characters
HashCount(s) == SkipHashes(s, 1) - 1

\* ^(?P<hashes>#{1,6})\s+(?P<text>.*)$
HEADING_RE(s) ==
    LET n == HashCount(s)
    IN  /\ n \in 1..6
        /\ n + 1 <= Len(s)
        /\ IsSpace(s[n + 1])

\* m.group("text") of HEADING_RE
HeadingText(s) == SubSeq(s, SkipSpace(s, HashCount(s) + 1), Len(s))

RECURSIVE SkipDigits(_, _)
\* index of the first character at or after k that is no digit
SkipDigits(s, k) ==
    IF k > Len(s) \/ ~IsDigit(s[k]) THEN k ELSE SkipDigits(s, k + 1)

\* index of the last character of the marker of a list line, 0 if no marker
\* starts at k: (?:[-+*])|(?:\d+\.)
MarkerEnd(s, k) ==
    IF k > Len(s) THEN 0
    ELSE IF s[k] \in {"-", "+", "*"} THEN k
    ELSE IF IsDigit(s[k])
         THEN LET d == SkipDigits(s, k)
              IN  IF d <= Len(s) /\ s[d] = "." THEN d ELSE 0
    ELSE 0

\* ^(?P<indent>\s*)(?P<marker>(?:[-+*])|(?:\d+\.))\s+(?P<text>.*)$
LIST_RE(s) ==
    LET e == MarkerEnd(s, SkipSpace(s, 1))
    IN  /\ e # 0
        /\ e + 1 <= Len(s)
        /\ IsSpace(s[e + 1])

\* len(m.group("indent")), m.group("marker"), m.group("text") of LIST_RE
ListIndent(s) == SkipSpace(s, 1) - 1
ListMarker(s) == SubSeq(s, SkipSpace(s, 1), MarkerEnd(s, SkipSpace(s, 1)))
ListText(s) ==
    SubSeq(s, SkipSpace(s, MarkerEnd(s, SkipSpace(s, 1)) + 1), Len(s))

\* ^\s*>\s?(?P<text>.*)$
BLOCKQUOTE_RE(s) ==
    LET k == SkipSpace(s, 1)
    IN  k <= Len(s) /\ s[k] = ">"

\* m.group("text") of BLOCKQUOTE_RE
BlockquoteText(s) ==
    LET k == SkipSpace(s, 1)
        t == IF k + 1 <= Len(s) /\ IsSpace(s[k + 1]) THEN k + 2 ELSE k + 1
    IN  SubSeq(s, t, Len(s))

\* ^\s*(?:---|\*\*\*|___)\s*$
HR_RE(s) ==
    LET k == SkipSpace(s, 1)
    IN  /\ \/ startswith(s, <<"-", "-", "-">>, k)
           \/ startswith(s, <<"*", "*", "*">>, k)
           \/ startswith(s, <<"_", "_", "_">>, k)
        /\ SkipSpace(s, k + 3) = Len(s) + 1

\* ^\s* followed by three backticks
CODE_FENCE_RE(s) == startswith(s, <<"TICK", "TICK", "TICK">>, SkipSpace(s, 1))

\* ^\s*\|.*\|\s*$
TABLE_ROW_RE(s) ==
    LET k == SkipSpace(s, 1)
        l == LastNonSpace(s)
    IN  /\ k <= Len(s)
        /\ s[k] = "|"
        /\ l > k
        /\ s[l] = "|"

\* not line.strip()
IsBlank(s) == strip(s) = <<>>

----------------------------------------------------------------------------
(* The table cell parser *)

\* the separator token with two hyphens accepted
SepToken_TwoHyphens(s) ==
    LET a == IF Len(s) >= 1 /\ s[1] = ":" THEN 2 ELSE 1
        b == IF Len(s) >= 1 /\ s[Len(s)] = ":" THEN Len(s) - 1 ELSE Len(s)
    IN  /\ b - a + 1 >= 2
        /\ \A m \in a..b : s[m] = "-"

\* re.fullmatch(r":?-{3,}:?", s)
SepToken(s) ==
    LET a == IF Len(s) >= 1 /\ s[1] = ":" THEN 2 ELSE 1
        b == IF Len(s) >= 1 /\ s[Len(s)] = ":" THEN Len(s) - 1 ELSE Len(s)
    IN  /\ b - a + 1 >= 3
        /\ \A m \in a..b : s[m] = "-"

is_table_sep_row(cells) ==
    \A k \in 1..Len(cells) :
        /\ strip(cells[k]) # <<>>
        /\ SepToken(strip(cells[k]))

\* raw.strip("|")
StripPipes(s) ==
    LET a == Min({m \in 1..Len(s) : s[m] # "|"} \cup {Len(s) + 1})
        b == IF \A m \in 1..Len(s) : s[m] = "|" THEN 0
             ELSE CHOOSE m \in 1..Len(s) :
                     s[m] # "|" /\ \A n \in (m + 1)..Len(s) : s[n] = "|"
    IN  SubSeq(s, a, b)

RECURSIVE split(_)
\* s.split("|")
split(s) ==
    LET p == find(s, <<"|">>, 1)
    IN  IF p = 0 THEN <<s>>
        ELSE <<SubSeq(s, 1, p - 1)>> \o split(SubSeq(s, p + 1, Len(s)))

\* [p.strip() for p in raw.strip("|").split("|")]
TableParts(raw) ==
    LET cells == split(StripPipes(raw))
    IN  [k \in 1..Len(cells) |-> strip(cells[k])]

\* the test that drops a line's parts from the rows
DropRow(parts) == is_table_sep_row(parts)

RECURSIVE KeptRows(_)
\* the loop of _parse_table_rows: the rows appended, before padding
KeptRows(lines) ==
    IF lines = <<>> THEN <<>>
    ELSE LET raw == strip(Head(lines))
         IN  IF ~startswith(raw, <<"|">>, 1) THEN KeptRows(Tail(lines))
             ELSE IF DropRow(TableParts(raw)) THEN KeptRows(Tail(lines))
             ELSE <<TableParts(raw)>> \o KeptRows(Tail(lines))

Max(S) == CHOOSE x \in S : \A y \in S : x >= y

\* max((len(r) for r in rows), default=0)
RowWidth(rs) == Max({Len(rs[k]) : k \in 1..Len(rs)} \cup {0})

\* the row left as it is
PadRow_NoPad(r, width) == r

\* r.extend([""] * (width - len(r)))
PadRow(r, width) ==
    IF Len(r) < width THEN r \o [k \in 1..(width - Len(r)) |-> <<>>] ELSE r

parse_table_rows(lines) ==
    LET rs == KeptRows(lines)
        width == RowWidth(rs)
    IN  [k \in 1..Len(rs) |-> PadRow(rs[k], width)]

----------------------------------------------------------------------------
(* _gather_until *)

RECURSIVE GatherStop(_, _, _)
\* the index at which the while loop of _gather_until stops
GatherStop(lines, k, pred) ==
    IF k < Len(lines) /\ pred[k + 1] THEN GatherStop(lines, k + 1, pred) ELSE k

\* returns <<buf, i>>: the lines from start while pred holds, and the stop
\* index; pred[k] is the value of the predicate on the k-th line
gather_until(lines, start, pred) ==
    LET j == GatherStop(lines, start, pred)
    IN  <<SubSeq(lines, start + 1, j), j>>

----------------------------------------------------------------------------
(* The inline markup translator *)

FontOpen ==
    <<"<", "f", "o", "n", "t", " ", "n", "a", "m", "e", "=", "\"",
      "C", "o", "u", "r", "i", "e", "r", "\"", ">">>
\* the code span closed with the closing tag of bold
FontClose_Bold == <<"<", "/", "b", ">">>

FontClose == <<"<", "/", "f", "o", "n", "t", ">">>
BoldOpen == <<"<", "b", ">">>
BoldClose == <<"<", "/", "b", ">">>
LineBreak == <<"<", "b", "r", "/", ">">>

Tick == <<"TICK">>
Stars == <<"*", "*">>

\* text[a:b] for 0-based a, b
Slice(s, a, b) == SubSeq(s, a + 1, b)

\* the search started at the beginning of the text whatever a is
Find0_NoStart(s, p, a) == find(s, p, 1) - 1

\* text.find(p, a) for 0-based a, -1 if absent
Find0(s, p, a) == find(s, p, a + 1) - 1

\* the opening token alone emitted as plain text, the scan going on after it
Unterminated_TokenOnly(s, p) ==
    [kind |-> "plain", piece |-> xml_escape(Slice(s, p, p + 1)),
     from |-> p, to |-> p + 1, brk |-> FALSE, next |-> p + 1]

\* what an unterminated opening token at p appends: the rest of the text, escaped
Unterminated(s, p) ==
    [kind |-> "plain", piece |-> xml_escape(Slice(s, p, Len(s))),
     from |-> p, to |-> Len(s), brk |-> TRUE, next |-> p]

\* the body of the while loop at position p < len(text): the string it appends
\* to out, the source range it consumes, whether it breaks, and the next i
InlineStep(s, p) ==
    IF s[p + 1] = "TICK"
    THEN LET j == Find0(s, Tick, p + 1)
         IN  IF j = -1 THEN Unterminated(s, p)
             ELSE [kind |-> "code",
                   piece |-> FontOpen \o xml_escape(Slice(s, p + 1, j)) \o FontClose,
                   from |-> p, to |-> j + 1, brk |-> FALSE, next |-> j + 1]
    ELSE IF startswith(s, Stars, p + 1)
    THEN LET j == Find0(s, Stars, p + 2)
         IN  IF j = -1 THEN Unterminated(s, p)
             ELSE [kind |-> "bold",
                   piece |-> BoldOpen \o xml_escape(Slice(s, p + 2, j)) \o BoldClose,
                   from |-> p, to |-> j + 2, brk |-> FALSE, next |-> j + 2]
    ELSE LET next_tick == Find0(s, Tick, p)
             next_bold == Find0(s, Stars, p)
             candidates == {q \in {next_tick, next_bold} : q # -1}
             nxt == IF candidates # {} THEN Min(candidates) ELSE -1
         IN  IF nxt = -1
             THEN [kind |-> "plain", piece |-> xml_escape(Slice(s, p, Len(s))),
                   from |-> p, to |-> Len(s), brk |-> TRUE, next |-> p]
             ELSE [kind |-> "plain", piece |-> xml_escape(Slice(s, p, nxt)),
                   from |-> p, to |-> nxt, brk |-> FALSE, next |-> nxt]

RECURSIVE InlineLoop(_, _)
\* the list out when the while loop ends, started at position p
InlineLoop(s, p) ==
    IF p >= Len(s) THEN <<>>
    ELSE LET st == InlineStep(s, p)
         IN  <<st.piece>> \o (IF st.brk THEN <<>> ELSE InlineLoop(s, st.next))

\* "".join(out).replace("\n", "<br/>")
JoinOut(pieces) ==
    LET joined == Concat(pieces)
    IN  Concat([k \in 1..Len(joined) |->
                  IF joined[k] = "\n" THEN LineBreak ELSE <<joined[k]>>])

inline_md_to_rl_markup(s) == JoinOut(InlineLoop(normalize_dashes(s), 0))

----------------------------------------------------------------------------
(* Layout directives: what build_pdf appends to story *)

Directive(type, txt, style, leftIndent, height, data, colWidths) ==
    [type |-> type, text |-> txt, style |-> style, leftIndent |-> leftIndent,
     height |-> height, data |-> data, colWidths |-> colWidths]

Spacer(height) == Directive("Spacer", <<>>, "", 0, height, <<>>, <<>>)
Paragraph(txt, style) == Directive("Paragraph", txt, style, 0, 0, <<>>, <<>>)
ListParagraph(txt, leftIndent) ==
    Directive("Paragraph", txt, "ListItem", leftIndent, 0, <<>>, <<>>)
Preformatted(txt, style) == Directive("Preformatted", txt, style, 0, 0, <<>>, <<>>)
HRFlowable == Directive("HRFlowable", <<>>, "", 0, 0, <<>>, <<>>)
Table(data, colWidths) == Directive("Table", <<>>, "", 0, 0, data, colWidths)

\* {1: h1, 2: h2, 3: h3, 4: h4}.get(level, base)
heading_style(level) ==
    IF level = 1 THEN "H1"
    ELSE IF level = 2 THEN "H2"
    ELSE IF level = 3 THEN "H3"
    ELSE IF level = 4 THEN "H4"
    ELSE "BaseCJK"

\* the equal widths computed for one column fewer
ColWidths_Short(ncols) ==
    IF ncols = 3 THEN <<220, 220, 560>>
    ELSE [k \in 1..(ncols - 1) |-> 1000 \div ncols]

\* col_widths, in thousandths of the usable width
ColWidths(ncols) ==
    IF ncols = 3 THEN <<220, 220, 560>>
    ELSE [k \in 1..ncols |-> 1000 \div ncols]

\* left_indent in mm: 6 + (indent_spaces // 2) * 6
LeftIndent(indent_spaces) == 6 + (indent_spaces \div 2) * 6

----------------------------------------------------------------------------
(* The block scan of build_pdf *)

\* the chain of tests without the horizontal-rule test
Branch_NoRule(line) ==
    IF IsBlank(line) THEN "blank"
    ELSE IF CODE_FENCE_RE(line) THEN "fence"
    ELSE IF HEADING_RE(line) THEN "heading"
    ELSE IF BLOCKQUOTE_RE(line) THEN "blockquote"
    ELSE IF TABLE_ROW_RE(line) THEN "table"
    ELSE IF LIST_RE(line) THEN "list"
    ELSE "paragraph"

\* the chain of tests at the top of the main loop: the branch taken for a line
Branch(line) ==
    IF IsBlank(line) THEN "blank"
    ELSE IF CODE_FENCE_RE(line) THEN "fence"
    ELSE IF HEADING_RE(line) THEN "heading"
    ELSE IF HR_RE(line) THEN "rule"
    ELSE IF BLOCKQUOTE_RE(line) THEN "blockquote"
    ELSE IF TABLE_ROW_RE(line) THEN "table"
    ELSE IF LIST_RE(line) THEN "list"
    ELSE "paragraph"

\* the closing fence skipped whether present or not
FenceResume_Always(j, n) == j + 1

\* the scan resuming on the closing fence
FenceResume_Never(j, n) == j

\* i = j + 1 if j < len(md_lines) else j
FenceResume(j, n) == IF j < n THEN j + 1 ELSE j

\* the scan resuming one line after the gather's end
Resume_SkipOne(j) == j + 1

\* i = j (i += 1 after a one-line block): the scan resumes at the gather's end
Resume(j) == j

\* lambda s: not CODE_FENCE_RE.match(s), on each line
NotFence(lines) == [k \in 1..Len(lines) |-> ~CODE_FENCE_RE(lines[k])]

\* lambda s: bool(BLOCKQUOTE_RE.match(s)), on each line
IsQuote(lines) == [k \in 1..Len(lines) |-> BLOCKQUOTE_RE(lines[k])]

\* lambda s: bool(TABLE_ROW_RE.match(s)), on each line
IsTableRow(lines) == [k \in 1..Len(lines) |-> TABLE_ROW_RE(lines[k])]

\* items and (ln.startswith("  ") or ln.startswith("\t"))
IsContinuation(items, ln) ==
    /\ items # <<>>
    /\ \/ startswith(ln, <<" ", " ">>, 1)
       \/ startswith(ln, <<"\t">>, 1)

\* the continuation appended to the first item
AppendPart_First(items, ln) ==
    [items EXCEPT ![1].parts = Append(@, strip(ln))]

\* items[-1][2].append(ln.strip())
AppendPart(items, ln) ==
    [items EXCEPT ![Len(items)].parts = Append(@, strip(ln))]

RECURSIVE ListGather(_, _, _)
\* the inner while loop of the list branch: <<items, j>> when it ends
ListGather(lines, j, items) ==
    IF j >= Len(lines) THEN <<items, j>>
    ELSE LET ln == lines[j + 1]
         IN  IF IsBlank(ln) THEN <<items, j>>
             ELSE IF LIST_RE(ln)
             THEN ListGather(lines, j + 1,
                     Append(items, [indent_spaces |-> ListIndent(ln),
                                    marker |-> ListMarker(ln),
                                    parts |-> <<rstrip(ListText(ln))>>]))
             ELSE IF IsContinuation(items, ln)
             THEN ListGather(lines, j + 1, AppendPart(items, ln))
             ELSE <<items, j>>

\* the directive of one list item
ListItemDirective(item) ==
    ListParagraph(
        inline_md_to_rl_markup(
            item.marker \o <<" ">> \o join(<<" ">>, SelectNonEmpty(item.parts))),
        LeftIndent(item.indent_spaces))

\* the tests that end the paragraph gather, without the table and list tests
ParaStop_NoTable(ln) ==
    \/ IsBlank(ln)
    \/ CODE_FENCE_RE(ln) \/ HEADING_RE(ln) \/ HR_RE(ln) \/ BLOCKQUOTE_RE(ln)

\* the tests that end the paragraph gather at line ln
ParaStop(ln) ==
    \/ IsBlank(ln)
    \/ CODE_FENCE_RE(ln) \/ HEADING_RE(ln) \/ HR_RE(ln) \/ BLOCKQUOTE_RE(ln)
    \/ TABLE_ROW_RE(ln) \/ LIST_RE(ln)

\* the paragraph gather: <<para_lines, j>>
ParaGather(lines, start) ==
    LET j == Min({k \in (start + 1)..(Len(lines) - 1) : ParaStop(lines[k + 1])}
                 \cup {Len(lines)})
    IN  <<<<lines[start + 1]>> \o
            [k \in 1..(j - start - 1) |-> rstrip(lines[start + 1 + k])], j>>

\* one gather of the scan: its kind, lines [from, to), the directives
\* story[first + 1 .. last] it appended, and the locals it gathered
Block(kind, from, to, first, last, data) ==
    [kind |-> kind, from |-> from, to |-> to, first |-> first, last |-> last,
     data |-> data]

Emit(kind, to, directives, data) ==
    /\ i' = Resume(to)
    /\ story' = story \o directives
    /\ blocks' = Append(blocks,
          Block(kind, i, to, Len(story), Len(story) + Len(directives), data))
    /\ UNCHANGED <<md_lines, skipped, built>>

InLoop == i < Len(md_lines)

Blank ==
    /\ InLoop
    /\ Branch(md_lines[i + 1]) = "blank"
    /\ i' = i + 1
    /\ skipped' = skipped \cup {i}
    /\ UNCHANGED <<md_lines, story, blocks, built, tableVars, inlineVars>>

CodeFence ==
    /\ InLoop
    /\ Branch(md_lines[i + 1]) = "fence"
    /\ LET g == gather_until(md_lines, i + 1, NotFence(md_lines))
           code == g[1]
           j == g[2]
       IN  Emit("CodeBlock", FenceResume(j, Len(md_lines)),
                <<Preformatted(normalize_dashes(join(<<"\n">>, code)), "Code"),
                  Spacer(6)>>,
                code)
    /\ UNCHANGED <<tableVars, inlineVars>>

Heading ==
    /\ InLoop
    /\ Branch(md_lines[i + 1]) = "heading"
    /\ LET line == md_lines[i + 1]
           level == HashCount(line)
           txt == strip(HeadingText(line))
       IN  Emit("Heading", i + 1,
                <<Paragraph(inline_md_to_rl_markup(txt), heading_style(level)),
                  Spacer(4)>>,
                txt)
    /\ UNCHANGED <<tableVars, inlineVars>>

Rule ==
    /\ InLoop
    /\ Branch(md_lines[i + 1]) = "rule"
    /\ Emit("Rule", i + 1, <<Spacer(6), HRFlowable, Spacer(6)>>, <<>>)
    /\ UNCHANGED <<tableVars, inlineVars>>

Blockquote ==
    /\ InLoop
    /\ Branch(md_lines[i + 1]) = "blockquote"
    /\ LET g == gather_until(md_lines, i, IsQuote(md_lines))
           qlines == g[1]
           j == g[2]
           qtxt == join(<<"\n">>,
                        [k \in 1..Len(qlines) |-> BlockquoteText(qlines[k])])
       IN  Emit("Blockquote", j,
                <<Paragraph(inline_md_to_rl_markup(qtxt), "QuoteCJK"), Spacer(6)>>,
                qlines)
    /\ UNCHANGED <<tableVars, inlineVars>>

\* the table branch with the spacer appended outside the test of rows
TableDirectives_AlwaysSpacer(rs) ==
    IF rs # <<>>
    THEN <<Table([r \in 1..Len(rs) |->
                    [c \in 1..Len(rs[r]) |-> inline_md_to_rl_markup(rs[r][c])]],
                 ColWidths(Len(rs[1]))),
           Spacer(10)>>
    ELSE <<Spacer(10)>>

\* the table branch without the spacer after the table
TableDirectives_NoSpacer(rs) ==
    IF rs # <<>>
    THEN <<Table([r \in 1..Len(rs) |->
                    [c \in 1..Len(rs[r]) |-> inline_md_to_rl_markup(rs[r][c])]],
                 ColWidths(Len(rs[1])))>>
    ELSE <<>>

\* the directives of the table branch for the parsed rows
TableDirectives(rs) ==
    IF rs # <<>>
    THEN <<Table([r \in 1..Len(rs) |->
                    [c \in 1..Len(rs[r]) |-> inline_md_to_rl_markup(rs[r][c])]],
                 ColWidths(Len(rs[1]))),
           Spacer(10)>>
    ELSE <<>>

TableBlock ==
    /\ InLoop
    /\ Branch(md_lines[i + 1]) = "table"
    /\ LET g == gather_until(md_lines, i, IsTableRow(md_lines))
           lines == g[1]
           j == g[2]
           rs == parse_table_rows(lines)
       IN  Emit("Table", j, TableDirectives(rs), rs)
    /\ UNCHANGED <<tableVars, inlineVars>>

ListBlock ==
    /\ InLoop
    /\ Branch(md_lines[i + 1]) = "list"
    /\ LET g == ListGather(md_lines, i, <<>>)
           items == g[1]
           j == g[2]
       IN  Emit("ListGroup", j,
                [k \in 1..Len(items) |-> ListItemDirective(items[k])]
                    \o <<Spacer(6)>>,
                items)
    /\ UNCHANGED <<tableVars, inlineVars>>

ParagraphBlock ==
    /\ InLoop
    /\ Branch(md_lines[i + 1]) = "paragraph"
    /\ LET g == ParaGather(md_lines, i)
           para_lines == g[1]
           j == g[2]
           ptxt == join(<<" ">>, SelectNonEmpty(para_lines))
       IN  Emit("Paragraph", j,
                <<Paragraph(inline_md_to_rl_markup(ptxt), "BaseCJK")>>,
                para_lines)
    /\ UNCHANGED <<tableVars, inlineVars>>

\* the main loop has ended: doc.build(story, ...)
Build ==
    /\ ~InLoop
    /\ ~built
    /\ built' = TRUE
    /\ UNCHANGED <<md_lines, i, story, blocks, skipped, tableVars, inlineVars>>

----------------------------------------------------------------------------
(* The input lines of the scan *)

LinePool ==
    { <<>>,                                    \* empty line
      <<" ", " ">>,                            \* whitespace only
      <<"TICK", "TICK", "TICK">>,              \* code fence
      <<"#", " ", "U2010">>,                   \* heading
      <<"-", "-", "-">>,                       \* horizontal rule
      <<">", " ", "U2011">>,                   \* blockquote
      <<"|", "a", "|", "U2013", "|">>,         \* table row
      <<"|", "-", "-", "-", "|">>,             \* table separator row
      <<"-", " ", "a">>,                       \* list item
      <<" ", " ", "1", ".", " ", "U2015">>,    \* indented ordered list item
      <<" ", " ", "U2212">>,                   \* indented text
      <<"\t", "b", " ">>,                      \* tab-indented text
      <<"a", "U2014">> }                       \* plain text with an em dash

Docs == UNION {[1..n -> LinePool] : n \in 0..MaxLines}

TableIdle == tbl_lines = <<>> /\ rows = <<>> /\ tpc = "idle"

InlineIdle ==
    /\ text_in = <<>> /\ text = <<>> /\ pos = 0 /\ out = <<>> /\ runs = <<>>
    /\ result = <<>> /\ ipc = "idle"

Init ==
    /\ md_lines \in Docs
    /\ i = 0
    /\ story = <<>>
    /\ blocks = <<>>
    /\ skipped = {}
    /\ built = FALSE
    /\ TableIdle
    /\ InlineIdle

Next ==
    \/ Blank
    \/ CodeFence
    \/ Heading
    \/ Rule
    \/ Blockquote
    \/ TableBlock
    \/ ListBlock
    \/ ParagraphBlock
    \/ Build

Spec == Init /\ [][Next]_vars

----------------------------------------------------------------------------
(* _parse_table_rows on its own: the groups the table branch can gather *)

TablePool ==
    { <<"|", "a", "|">>,
      <<"|", "a", "|", "b", "|">>,
      <<"|", "a", "|", "|", "b", "|">>,
      <<"|", "a", "|", "b", "|", "c", "|", "d", "|">>,
      <<"|", "|">>,
      <<"|", "-", "-", "-", "|">>,
      <<"|", "-", "-", "|">>,
      <<"|", ":", "-", "-", "-", ":", "|", "-", "-", "-", "-", "|">>,
      <<" ", "|", " ", "-", "-", "-", " ", "|", " ">>,
      <<"|", "-", "-", "-", "|", "|">>,
      <<"|", "-", "-", "-", "|", " ", "|">> }

TableGroups ==
    UNION {[1..n -> {l \in TablePool : TABLE_ROW_RE(l)}] : n \in 1..MaxRows}

ScanIdle ==
    /\ md_lines = <<>> /\ i = 0 /\ story = <<>> /\ blocks = <<>>
    /\ skipped = {} /\ built = FALSE

InitTable ==
    /\ tbl_lines \in TableGroups
    /\ rows = <<>>
    /\ tpc = "call"
    /\ ScanIdle
    /\ InlineIdle

ParseTable ==
    /\ tpc = "call"
    /\ rows' = parse_table_rows(tbl_lines)
    /\ tpc' = "done"
    /\ UNCHANGED <<tbl_lines, scanVars, inlineVars>>

\* the table branch after the parse: if rows, story.append(t) and the spacer
AppendTable ==
    /\ tpc = "done"
    /\ story' = story \o TableDirectives(rows)
    /\ tpc' = "appended"
    /\ UNCHANGED <<md_lines, i, blocks, skipped, built, tbl_lines, rows,
                   inlineVars>>

NextTable ==
    \/ ParseTable
    \/ AppendTable

SpecTable == InitTable /\ [][NextTable]_vars

----------------------------------------------------------------------------
(* _inline_md_to_rl_markup on its own *)

\* the characters a text is made of besides the two delimiters
Payload ==
    {"a", "<", ">", "&", "\"", "'", "\n",
     "U2010", "U2011", "U2012", "U2013", "U2014", "U2015", "U2212"}

\* texts of backticks, asterisks and one payload character
InlineTexts ==
    UNION {[1..n -> {"TICK", "*", c}] : n \in 0..MaxText, c \in Payload}

InitInline ==
    /\ text_in \in InlineTexts
    /\ text = text_in
    /\ pos = 0
    /\ out = <<>>
    /\ runs = <<>>
    /\ result = <<>>
    /\ ipc = "start"
    /\ ScanIdle
    /\ TableIdle

\* text = normalize_dashes(text); i = 0
InlineNormalize ==
    /\ ipc = "start"
    /\ text' = normalize_dashes(text)
    /\ ipc' = "loop"
    /\ UNCHANGED <<text_in, pos, out, runs, result, scanVars, tableVars>>

\* one iteration of the while loop, st being what its body does at pos
InlineAppend(st) ==
    /\ out' = Append(out, st.piece)
    /\ runs' = Append(runs, [kind |-> st.kind, from |-> st.from, to |-> st.to])
    /\ pos' = st.next
    /\ ipc' = IF st.brk THEN "join" ELSE "loop"
    /\ UNCHANGED <<text_in, text, result, scanVars, tableVars>>

InLine == ipc = "loop" /\ pos < Len(text)

\* a closed code span
InlineCode ==
    /\ InLine
    /\ InlineStep(text, pos).kind = "code"
    /\ InlineAppend(InlineStep(text, pos))

\* a closed bold span
InlineBold ==
    /\ InLine
    /\ InlineStep(text, pos).kind = "bold"
    /\ InlineAppend(InlineStep(text, pos))

\* plain text up to the next delimiter
InlinePlain ==
    /\ InLine
    /\ InlineStep(text, pos).kind = "plain"
    /\ ~InlineStep(text, pos).brk
    /\ InlineAppend(InlineStep(text, pos))

\* the three breaks: the rest of the text is appended and the loop ends
InlineBreak ==
    /\ InLine
    /\ InlineStep(text, pos).brk
    /\ InlineAppend(InlineStep(text, pos))

\* the loop has ended: return "".join(out).replace("\n", "<br/>")
InlineReturn ==
    /\ \/ ipc = "join"
       \/ ipc = "loop" /\ pos >= Len(text)
    /\ result' = JoinOut(out)
    /\ ipc' = "done"
    /\ UNCHANGED <<text_in, text, pos, out, runs, scanVars, tableVars>>

NextInline ==
    \/ InlineNormalize
    \/ InlineCode
    \/ InlineBold
    \/ InlinePlain
    \/ InlineBreak
    \/ InlineReturn

SpecInline == InitInline /\ [][NextInline]_vars

----------------------------------------------------------------------------
(* Properties of the block scan *)

\* md_lines[k] of the source, k 0-based
LineAt(k) == md_lines[k + 1]

NumLines == Len(md_lines)

\* the main loop has ended and the story has been handed to doc.build
ScanDone == built

\* the gathers whose line range holds index k
Covering(k) ==
    {b \in 1..Len(blocks) : blocks[b].from <= k /\ k < blocks[b].to}

\* the gathers that appended a directive, whose line range holds index k
EmittedCovering(k) ==
    {b \in Covering(k) : blocks[b].last > blocks[b].first}

\* a cell that is :?-{3,}:? , stated by construction
SepCell(c) ==
    \E lead \in 0..1, trail \in 0..1 :
        /\ Len(c) - lead - trail >= 3
        /\ \A m \in 1..Len(c) :
              c[m] = IF (m <= lead) \/ (m > Len(c) - trail) THEN ":" ELSE "-"

\* a table line all of whose cells are non-empty separator tokens
SepLine(ln) ==
    LET cells == TableParts(strip(ln))
    IN  \A k \in 1..Len(cells) : cells[k] # <<>> /\ SepCell(cells[k])

\* the six block-start patterns other than blank, in the order of the scan
Patterns(ln) ==
    <<CODE_FENCE_RE(ln), HEADING_RE(ln), HR_RE(ln), BLOCKQUOTE_RE(ln),
      TABLE_ROW_RE(ln), LIST_RE(ln)>>

PatternKinds ==
    <<"CodeBlock", "Heading", "Rule", "Blockquote", "Table", "ListGroup">>

MatchesSome(ln) ==
    LET pats == Patterns(ln)
    IN  \E n \in 1..6 : pats[n]

\* C1 as stated: when the scan has finished, every line index lies in the line
\* range of exactly one emitted Block.
C1_EveryLineInOneBlock ==
    ScanDone =>
        \A k \in 0..(NumLines - 1) : Cardinality(EmittedCovering(k)) = 1

\* C1 amended: when the scan has finished, every line index 0..len-1 is consumed
\* by exactly one iteration: either it is a blank line skipped at the top of the
\* loop and lies in no gather, or it lies in the range of exactly one gather;
\* the ranges stay inside 0..len, and every gather emitted a Block except a
\* table group all of whose lines are separator rows.
C1_Coverage ==
    ScanDone =>
        /\ \A k \in 0..(NumLines - 1) :
              IF k \in skipped
              THEN IsBlank(LineAt(k)) /\ Covering(k) = {}
              ELSE Cardinality(Covering(k)) = 1
        /\ \A b \in 1..Len(blocks) :
              /\ 0 <= blocks[b].from
              /\ blocks[b].from < blocks[b].to
              /\ blocks[b].to <= NumLines
              /\ blocks[b].last = blocks[b].first =>
                    /\ blocks[b].kind = "Table"
                    /\ \A k \in blocks[b].from..(blocks[b].to - 1) :
                          SepLine(LineAt(k))

\* reached: a finished scan that skipped a blank line, emitted two Blocks and
\* gathered a table group that emitted none
C1_Witness ==
    /\ ScanDone
    /\ skipped # {}
    /\ \E b \in 1..Len(blocks) : blocks[b].last = blocks[b].first
    /\ \E b \in 1..Len(blocks) : blocks[b].last > blocks[b].first

\* C2: the scan starts at position 0, every iteration of the main loop strictly
\* increases the position and never moves it past the number of lines, the
\* Blocks' line ranges are in strictly increasing order, and the loop ends,
\* and the story is built, with the position equal to the number of lines.
C2_Progress ==
    /\ i = 0
    /\ [][IF built' = built
          THEN i' > i /\ i' <= NumLines
          ELSE i' = i /\ i = NumLines]_vars
    /\ [](\A b \in 1..Len(blocks) :
            /\ blocks[b].from < blocks[b].to
            /\ b > 1 => blocks[b - 1].to <= blocks[b].from)
    /\ [](i <= NumLines)
    /\ [](built => i = NumLines)

\* reached: a scan at the end of three lines after a skip and two gathers
C2_Witness ==
    /\ built
    /\ i = NumLines
    /\ NumLines = 3
    /\ skipped # {}
    /\ Len(blocks) = 2

\* the kind the first matching test gives: blank first, then the six patterns
\* in order, else paragraph
FirstMatchKind(ln) ==
    LET pats == Patterns(ln)
        hits == {n \in 1..6 : pats[n]}
    IN  IF IsBlank(ln) THEN "Blank"
        ELSE IF hits # {} THEN PatternKinds[Min(hits)]
        ELSE "Paragraph"

\* C3: every gather starts on a line whose first matching test, in the order
\* blank, code fence, heading, rule, blockquote, table row, list marker, is the
\* one of the gather's kind; a Paragraph starts only on a non-blank line that
\* matches none of the six patterns, and only blank lines are skipped.
C3_FirstMatchWins ==
    /\ \A b \in 1..Len(blocks) :
          /\ blocks[b].kind = FirstMatchKind(LineAt(blocks[b].from))
          /\ blocks[b].kind = "Paragraph" =>
                /\ ~IsBlank(LineAt(blocks[b].from))
                /\ ~MatchesSome(LineAt(blocks[b].from))
    /\ \A k \in skipped : IsBlank(LineAt(k))

\* reached: a Rule, then a Paragraph started on an indented line, then a skip
C3_Witness ==
    /\ Len(blocks) = 2
    /\ blocks[1].kind = "Rule"
    /\ blocks[2].kind = "Paragraph"
    /\ IsSpace(LineAt(blocks[2].from)[1])
    /\ skipped # {}

\* C4: a Paragraph's range holds, after its first line, exactly the following
\* lines up to the first one that is blank or matches one of the six patterns;
\* its text is made of those lines, none of which matches the table-row pattern.
C4_ParagraphGather ==
    \A b \in 1..Len(blocks) :
        blocks[b].kind = "Paragraph" =>
            LET from == blocks[b].from
                to == blocks[b].to
            IN  /\ \A k \in (from + 1)..(to - 1) :
                      ~IsBlank(LineAt(k)) /\ ~MatchesSome(LineAt(k))
                /\ to < NumLines =>
                      IsBlank(LineAt(to)) \/ MatchesSome(LineAt(to))
                /\ \A k \in from..(to - 1) : ~TABLE_ROW_RE(LineAt(k))
                /\ Len(blocks[b].data) = to - from
                /\ \A k \in from..(to - 1) :
                      strip(blocks[b].data[k - from + 1]) = strip(LineAt(k))
                /\ story[blocks[b].last].text =
                      inline_md_to_rl_markup(
                          join(<<" ">>,
                               SelectNonEmpty(SubSeq(md_lines, from + 1, to))))

\* reached: a Paragraph of two lines that stopped at a table row
C4_Witness ==
    \E b \in 1..Len(blocks) :
        /\ blocks[b].kind = "Paragraph"
        /\ blocks[b].to = blocks[b].from + 2
        /\ blocks[b].to < NumLines
        /\ TABLE_ROW_RE(LineAt(blocks[b].to))

\* C5: a code fence with no fence line after it gathers every remaining line
\* into one CodeBlock, which is the last Block, and the position ends at the
\* number of lines; a blockquote whose lines run to the end of input is emitted
\* with all of them.
C5_UnterminatedGather ==
    \A b \in 1..Len(blocks) :
        LET from == blocks[b].from
        IN  /\ ( /\ blocks[b].kind = "CodeBlock"
                 /\ \A k \in (from + 1)..(NumLines - 1) : ~CODE_FENCE_RE(LineAt(k)) )
                => /\ blocks[b].to = NumLines
                   /\ b = Len(blocks)
                   /\ i = NumLines
                   /\ blocks[b].data = SubSeq(md_lines, from + 2, NumLines)
                   /\ blocks[b].last = blocks[b].first + 2
                   /\ story[blocks[b].first + 1] =
                         Preformatted(
                             normalize_dashes(
                                 join(<<"\n">>, SubSeq(md_lines, from + 2, NumLines))),
                             "Code")
            /\ ( /\ blocks[b].kind = "Blockquote"
                 /\ \A k \in from..(NumLines - 1) : BLOCKQUOTE_RE(LineAt(k)) )
                => /\ blocks[b].to = NumLines
                   /\ b = Len(blocks)
                   /\ i = NumLines
                   /\ blocks[b].data = SubSeq(md_lines, from + 1, NumLines)
                   /\ blocks[b].last = blocks[b].first + 2
                   /\ story[blocks[b].first + 1].type = "Paragraph"

\* reached: an unterminated code fence that gathered the two lines after it
C5_Witness ==
    /\ Len(blocks) = 1
    /\ blocks[1].kind = "CodeBlock"
    /\ blocks[1].from = 0
    /\ Len(blocks[1].data) = 2
    /\ \A k \in 1..(NumLines - 1) : ~CODE_FENCE_RE(LineAt(k))
    /\ i = NumLines
    /\ built

----------------------------------------------------------------------------
(* Properties of the table cell parser *)

\* the cells of the k-th gathered line
OrigCells(k) == TableParts(strip(tbl_lines[k]))

\* the gathered lines that are not separator rows
DataLines == {k \in 1..Len(tbl_lines) : ~SepLine(tbl_lines[k])}

\* the n-th element of a set of numbers, in increasing order
Nth(S, n) == CHOOSE k \in S : Cardinality({m \in S : m <= k}) = n

\* the n-th data line, in the order of the group
NthData(n) == Nth(DataLines, n)

C7_SeparatorFiltered ==
    /\ \A k \in 1..Len(tbl_lines) :
          is_table_sep_row(OrigCells(k)) <=> SepLine(tbl_lines[k])
    /\ tpc = "done" =>
          LET data == DataLines
          IN  /\ Len(rows) = Cardinality(data)
              /\ \A r \in 1..Len(rows) :
                    LET cells == OrigCells(Nth(data, r))
                    IN  /\ Len(cells) <= Len(rows[r])
                        /\ SubSeq(rows[r], 1, Len(cells)) = cells
                        /\ ~is_table_sep_row(cells)

\* reached: a group with a separator row between two data rows, the first of
\* them a line of two hyphens
C7_Witness ==
    /\ tpc = "done"
    /\ Len(tbl_lines) = 3
    /\ Len(rows) = 2
    /\ SepLine(tbl_lines[2])
    /\ OrigCells(1) = << <<"-", "-">> >>

----------------------------------------------------------------------------
(* Properties of the table and list branches *)

\* the lines of block b are all separator rows
AllSeparators(b) ==
    \A k \in blocks[b].from..(blocks[b].to - 1) : SepLine(LineAt(k))

\* the first index at or after k whose line is no table row
TableEnd(k) ==
    Min({m \in k..(NumLines - 1) : ~TABLE_ROW_RE(LineAt(m))} \cup {NumLines})

\* C8: a table group all of whose lines are separator rows appends nothing to
\* the story, neither a Table nor a spacer, and the scan resumes at the first
\* line after the group; the story holds one Table per group with a data row.
C8_EmptyTable ==
    /\ \A b \in 1..Len(blocks) :
          (blocks[b].kind = "Table" /\ AllSeparators(b)) =>
              /\ blocks[b].last = blocks[b].first
              /\ blocks[b].to = TableEnd(blocks[b].from)
              /\ (b = Len(blocks) /\ \A k \in skipped : k < blocks[b].to) =>
                    /\ i = blocks[b].to
                    /\ Len(story) = blocks[b].first
              /\ b < Len(blocks) => blocks[b + 1].first = blocks[b].first
    /\ Cardinality({s \in 1..Len(story) : story[s].type = "Table"}) =
          Cardinality({b \in 1..Len(blocks) :
                          blocks[b].kind = "Table" /\ ~AllSeparators(b)})

\* reached: a group of separator rows that appended nothing, and the block
\* gathered next, from the first line after the group
C8_Witness ==
    /\ Len(blocks) = 2
    /\ blocks[1].kind = "Table"
    /\ AllSeparators(1)
    /\ blocks[1].last = blocks[1].first
    /\ blocks[2].from = blocks[1].to
    /\ Len(story) > 0

\* ln.startswith("  ") or ln.startswith("\t")
Indented(ln) ==
    \/ (Len(ln) >= 2 /\ ln[1] = " " /\ ln[2] = " ")
    \/ (Len(ln) >= 1 /\ ln[1] = "\t")

\* the end of a list gather started at k, as C9 states it: the first line that
\* neither matches the marker pattern nor begins with two spaces or a tab
ListEndAsStated(k) ==
    Min({m \in k..(NumLines - 1) :
            ~LIST_RE(LineAt(m)) /\ ~Indented(LineAt(m))} \cup {NumLines})

\* the end of a list gather started at k: the first line that is blank, or
\* neither matches the marker pattern nor begins with two spaces or a tab
ListEnd(k) ==
    Min({m \in k..(NumLines - 1) :
            \/ IsBlank(LineAt(m))
            \/ ~LIST_RE(LineAt(m)) /\ ~Indented(LineAt(m))} \cup {NumLines})

\* the marker lines of block b, and the n-th of them
MarkerLines(b) ==
    {k \in blocks[b].from..(blocks[b].to - 1) : LIST_RE(LineAt(k))}

NthMarker(b, n) == Nth(MarkerLines(b), n)

\* the line after the last line of the item started at marker line k
ItemEnd(b, k) ==
    Min({m \in MarkerLines(b) : m > k} \cup {blocks[b].to})

\* the parts of the item started at marker line k: its own text, then each
\* following line of the item, trimmed
ItemParts(b, k) ==
    <<rstrip(ListText(LineAt(k)))>> \o
        [q \in 1..(ItemEnd(b, k) - k - 1) |-> strip(LineAt(k + q))]

\* C9 as stated: a list gather ends at the first line that neither matches the
\* marker pattern nor begins with two spaces or a tab.
C9_GatherEndsAsStated ==
    \A b \in 1..Len(blocks) :
        blocks[b].kind = "ListGroup" => blocks[b].to = ListEndAsStated(blocks[b].from)

\* C9 amended: in a list gather each line matching the marker pattern starts an
\* item; each non-blank line that does not match it but begins with two spaces
\* or a tab is appended, trimmed, to the item started last and to no other;
\* the gather ends at the first other line, a blank or whitespace-only line
\* included; an item's text is its non-empty parts joined by one space.
C9_ListGather ==
    \A b \in 1..Len(blocks) :
        blocks[b].kind = "ListGroup" =>
            LET items == blocks[b].data
            IN  /\ blocks[b].to = ListEnd(blocks[b].from)
                /\ Len(items) = Cardinality(MarkerLines(b))
                /\ blocks[b].last = blocks[b].first + Len(items) + 1
                /\ \A n \in 1..Len(items) :
                      /\ items[n].parts = ItemParts(b, NthMarker(b, n))
                      /\ story[blocks[b].first + n].text =
                            inline_md_to_rl_markup(
                                ListMarker(LineAt(NthMarker(b, n))) \o <<" ">> \o
                                join(<<" ">>,
                                     SelectNonEmpty(ItemParts(b, NthMarker(b, n)))))

\* reached: a list of two items, the continuation line appended to the second
C9_Witness ==
    \E b \in 1..Len(blocks) :
        /\ blocks[b].kind = "ListGroup"
        /\ Len(blocks[b].data) = 2
        /\ Len(blocks[b].data[1].parts) = 1
        /\ Len(blocks[b].data[2].parts) = 2

----------------------------------------------------------------------------
(* Properties of the inline markup translator *)

\* an opening token at 0-based p with no closing token after it
UnterminatedAt(p) ==
    \/ /\ text[p + 1] = "TICK"
       /\ \A q \in (p + 2)..Len(text) : text[q] # "TICK"
    \/ /\ startswith(text, Stars, p + 1)
       /\ \A q \in (p + 3)..Len(text) : ~startswith(text, Stars, q)

\* C10: when the translator reaches an opening backtick or double asterisk
\* that has no closing token after it, it appends the opening token and all the
\* text after it as one escaped plain run, the last one: the returned markup
\* ends with that escaped text and holds no code or bold tag in it.
C10_UnterminatedIsPlain ==
    ipc = "done" =>
        \A r \in 1..Len(runs) :
            (runs[r].from < Len(text) /\ UnterminatedAt(runs[r].from)) =>
                LET rest == xml_escape(Slice(text, runs[r].from, Len(text)))
                    tail == JoinOut(<<rest>>)
                IN  /\ r = Len(runs)
                    /\ runs[r].kind = "plain"
                    /\ runs[r].to = Len(text)
                    /\ out[r] = rest
                    /\ result = JoinOut(SubSeq(out, 1, r - 1)) \o tail
                    /\ find(tail, FontOpen, 1) = 0
                    /\ find(tail, BoldOpen, 1) = 0

\* reached: an unterminated backtick followed by a well-formed bold span,
\* returned as one plain run
C10_Witness ==
    /\ ipc = "done"
    /\ Len(text) = 5
    /\ text[1] = "TICK"
    /\ UnterminatedAt(0)
    /\ startswith(text, Stars, 2)
    /\ startswith(text, Stars, 4)
    /\ Len(runs) = 1

\* the tags a run of the given kind is wrapped in
RunOpen(kind) ==
    IF kind = "code" THEN FontOpen ELSE IF kind = "bold" THEN BoldOpen ELSE <<>>

RunClose(kind) ==
    IF kind = "code" THEN FontClose ELSE IF kind = "bold" THEN BoldClose ELSE <<>>

\* the length of the delimiter on each side of a run of the given kind
DelimLen(kind) == IF kind = "code" THEN 1 ELSE IF kind = "bold" THEN 2 ELSE 0

\* the delimiter of a run of the given kind
Delim(kind) == IF kind = "code" THEN Tick ELSE IF kind = "bold" THEN Stars ELSE <<>>

\* the text of run r between its delimiters
RunSource(r) ==
    Slice(text, runs[r].from + DelimLen(runs[r].kind),
          runs[r].to - DelimLen(runs[r].kind))

\* what run r appended to out, between its tags
RunContent(r) ==
    SubSeq(out[r], Len(RunOpen(runs[r].kind)) + 1,
           Len(out[r]) - Len(RunClose(runs[r].kind)))

RECURSIVE Unescape(_)
\* the text of which s is the escaped form: the three entities read back
Unescape(s) ==
    IF s = <<>> THEN <<>>
    ELSE IF startswith(s, <<"&", "a", "m", "p", ";">>, 1)
    THEN <<"&">> \o Unescape(SubSeq(s, 6, Len(s)))
    ELSE IF startswith(s, <<"&", "l", "t", ";">>, 1)
    THEN <<"<">> \o Unescape(SubSeq(s, 5, Len(s)))
    ELSE IF startswith(s, <<"&", "g", "t", ";">>, 1)
    THEN <<">">> \o Unescape(SubSeq(s, 5, Len(s)))
    ELSE <<Head(s)>> \o Unescape(Tail(s))

\* the loop of the translator has ended
InlineLoopEnded ==
    \/ ipc \in {"join", "done"}
    \/ ipc = "loop" /\ pos >= Len(text)

\* C11: the source ranges of the successive runs partition the normalized
\* text: each is non-empty, the first starts at index 0, each next one starts
\* where the one before ends, the last ends at the length of the text when the
\* loop has ended, and the ranges put end to end give the text back; a code or
\* bold run's range holds its two delimiters, and what the run appended is the
\* escaped form of the text between them.
C11_RunsPartition ==
    /\ \A r \in 1..Len(runs) :
          LET d == DelimLen(runs[r].kind)
          IN  /\ runs[r].from < runs[r].to
              /\ runs[r].from = IF r = 1 THEN 0 ELSE runs[r - 1].to
              /\ runs[r].to <= Len(text)
              /\ runs[r].to - runs[r].from >= 2 * d
              /\ Slice(text, runs[r].from, runs[r].from + d) = Delim(runs[r].kind)
              /\ Slice(text, runs[r].to - d, runs[r].to) = Delim(runs[r].kind)
              /\ Unescape(RunContent(r)) = RunSource(r)
    /\ ipc = "loop" => pos = IF runs = <<>> THEN 0 ELSE runs[Len(runs)].to
    /\ InlineLoopEnded =>
          /\ (IF runs = <<>> THEN 0 ELSE runs[Len(runs)].to) = Len(text)
          /\ Concat([r \in 1..Len(runs) |-> Slice(text, runs[r].from, runs[r].to)])
                = text

\* reached: a text of five characters returned as three runs, a code span
\* between its backticks among them
C11_Witness ==
    /\ ipc = "done"
    /\ Len(text) = 5
    /\ Len(runs) = 3
    /\ \E r \in 1..3 : runs[r].kind = "code" /\ runs[r].to - runs[r].from = 3

\* the escape of one character as the claims state it: an entity for each of
\* & < >, and for the two quotes when five is TRUE
Entity(c, five) ==
    IF c = "&" THEN <<"&", "a", "m", "p", ";">>
    ELSE IF c = "<" THEN <<"&", "l", "t", ";">>
    ELSE IF c = ">" THEN <<"&", "g", "t", ";">>
    ELSE IF five /\ c = "\"" THEN <<"&", "q", "u", "o", "t", ";">>
    ELSE IF five /\ c = "'" THEN <<"&", "a", "p", "o", "s", ";">>
    ELSE <<c>>

\* the text s with every character replaced by its escape
Escaped(s, five) == Concat([k \in 1..Len(s) |-> Entity(s[k], five)])

\* run r appended its tags around the escape of the text between its delimiters
RunEscaped(r, five) ==
    out[r] = RunOpen(runs[r].kind) \o Escaped(RunSource(r), five)
                \o RunClose(runs[r].kind)

\* C12 as stated: every run appends the text between its delimiters with each
\* of the five characters & < > " ' replaced by an escape, wrapped in the tags
\* of its kind.
C12_FiveEscaped ==
    \A r \in 1..Len(runs) :
        /\ RunEscaped(r, TRUE)
        /\ \A k \in 1..Len(RunContent(r)) :
              RunContent(r)[k] \notin {"<", ">", "\"", "'"}

\* C12 amended: every run, plain, code or bold, appends the text between its
\* delimiters with each of the three characters & < > replaced by its entity,
\* wrapped in the tags of its kind; no < or > is left in it and every & in it
\* starts an entity; the quotes " and ' are not escaped and stay as they are.
C12_ThreeEscaped ==
    \A r \in 1..Len(runs) :
        LET content == RunContent(r)
        IN  /\ RunEscaped(r, FALSE)
            /\ \A k \in 1..Len(content) :
                  /\ content[k] \notin {"<", ">"}
                  /\ content[k] = "&" =>
                        \/ startswith(content, <<"&", "a", "m", "p", ";">>, k)
                        \/ startswith(content, <<"&", "l", "t", ";">>, k)
                        \/ startswith(content, <<"&", "g", "t", ";">>, k)
            /\ \A q \in {"\"", "'"} :
                  Cardinality({k \in 1..Len(content) : content[k] = q}) =
                  Cardinality({k \in 1..Len(RunSource(r)) : RunSource(r)[k] = q})

\* reached: a code run and a plain run that each escaped a character, the
\* translator having returned
C12_Witness ==
    /\ ipc = "done"
    /\ Len(runs) = 2
    /\ runs[1].kind = "code"
    /\ runs[2].kind = "plain"
    /\ RunSource(1) = <<">">>
    /\ RunSource(2) = <<">">>
    /\ out[2] = <<"&", "g", "t", ";">>

\* the markup tags the translator inserts, and the escapes it produces
InsertedTags == {BoldOpen, BoldClose, FontOpen, FontClose, LineBreak}

Entities ==
    {<<"&", "a", "m", "p", ";">>, <<"&", "l", "t", ";">>, <<"&", "g", "t", ";">>}

\* the length of the inserted tag or escape s starts with at k, 0 if none
TokenLen(s, k) ==
    LET hits == {t \in InsertedTags \cup Entities : startswith(s, t, k)}
    IN  IF hits = {} THEN 0 ELSE Len(CHOOSE t \in hits : TRUE)

RECURSIVE OnlyInsertedMarkup(_, _)
\* read from k on, every < > & of s lies in an inserted tag or an escape
OnlyInsertedMarkup(s, k) ==
    IF k > Len(s) THEN TRUE
    ELSE IF TokenLen(s, k) > 0 THEN OnlyInsertedMarkup(s, k + TokenLen(s, k))
    ELSE IF s[k] \in {"<", ">", "&"} THEN FALSE
    ELSE OnlyInsertedMarkup(s, k + 1)

\* the number of places of s that hold a character of the set cs
Count(s, cs) == Cardinality({k \in 1..Len(s) : s[k] \in cs})

\* the number of closed code and bold runs
SpanRuns == Cardinality({r \in 1..Len(runs) : runs[r].kind \in {"code", "bold"}})

\* C13: in the markup the translator returns, every < > & is part of a tag it
\* inserted or of an escape it produced: there are as many < (and as many >)
\* as tags inserted, two per code or bold run and one per newline of the text,
\* and as many & as the text holds characters < > &.
C13_EscapingSafety ==
    ipc = "done" =>
        /\ OnlyInsertedMarkup(result, 1)
        /\ Count(result, {"<"}) = 2 * SpanRuns + Count(text, {"\n"})
        /\ Count(result, {">"}) = 2 * SpanRuns + Count(text, {"\n"})
        /\ Count(result, {"&"}) = Count(text, {"<", ">", "&"})

\* reached: a bold span around a < returned as a tag pair around its escape
C13_Witness ==
    /\ ipc = "done"
    /\ text = <<"*", "*", "<", "*", "*">>
    /\ result = BoldOpen \o <<"&", "l", "t", ";">> \o BoldClose

----------------------------------------------------------------------------
(* Properties of the layout directives *)

\* the gathers that appended at least one directive
Emitted == {b \in 1..Len(blocks) : blocks[b].last > blocks[b].first}

\* the directives block b appended
BlockDirectives(b) == SubSeq(story, blocks[b].first + 1, blocks[b].last)

\* C14 as stated: the last directive of every emitted block, of each of the
\* seven types, is a spacer, so that a spacer stands between the block and the
\* directives of the next block.
C14_SpacerAfterEveryBlock ==
    \A b \in Emitted : story[blocks[b].last].type = "Spacer"

\* C14 amended: every emitted block of the six types heading, rule, code
\* block, blockquote, table and list group appends its own directives and then
\* a spacer, which stands before the next block's directives; a paragraph
\* block appends one Paragraph directive and no spacer.
C14_SpacerAfterBlock ==
    \A b \in Emitted :
        LET ds == BlockDirectives(b)
        IN  IF blocks[b].kind = "Paragraph"
            THEN /\ Len(ds) = 1
                 /\ ds[1].type = "Paragraph"
            ELSE /\ Len(ds) >= 2
                 /\ ds[Len(ds)].type = "Spacer"
                 /\ ds[Len(ds) - 1].type # "Spacer"
                 /\ b < Len(blocks) =>
                       /\ blocks[b + 1].first = blocks[b].last
                       /\ story[blocks[b + 1].first].type = "Spacer"

\* reached: a heading, a paragraph and a table, the paragraph being the only
\* one with no spacer after it
C14_Witness ==
    /\ Len(blocks) = 3
    /\ blocks[1].kind = "Heading"
    /\ blocks[2].kind = "Paragraph"
    /\ blocks[3].kind = "Table"
    /\ story[blocks[1].last].type = "Spacer"
    /\ story[blocks[2].last].type = "Paragraph"
    /\ story[blocks[3].first + 1].type = "Table"
    /\ story[blocks[3].last].type = "Spacer"

\* the seven dash variants the claims list: U+2010 to U+2015 and U+2212
DashVariants == {"U2010", "U2011", "U2012", "U2013", "U2014", "U2015", "U2212"}

\* the texts of a sequence of directives, table cells included, end to end
DirectiveTexts(ds) ==
    Concat([k \in 1..Len(ds) |->
              ds[k].text \o
              Concat([r \in 1..Len(ds[k].data) |-> Concat(ds[k].data[r])])])

\* the text block b gathered from its lines, end to end
BlockSource(b) ==
    LET d == blocks[b].data
    IN  IF blocks[b].kind = "Heading" THEN d
        ELSE IF blocks[b].kind = "Rule" THEN <<>>
        ELSE IF blocks[b].kind = "Table"
        THEN Concat([r \in 1..Len(d) |-> Concat(d[r])])
        ELSE IF blocks[b].kind = "ListGroup"
        THEN Concat([n \in 1..Len(d) |-> d[n].marker \o Concat(d[n].parts)])
        ELSE Concat(d)

\* C15: no directive of the story, whatever block it was emitted for, holds a
\* dash variant, in its text or in a table cell; each dash variant a block
\* gathered is an ASCII hyphen in the block's directives, which hold as many
\* hyphens as the block gathered dashes and hyphens; in a code block the
\* text is the gathered lines joined by newlines, each dash variant replaced
\* by a hyphen at its position and every other character kept.
C15_NoDashVariant ==
    /\ Count(DirectiveTexts(story), DashVariants) = 0
    /\ \A b \in 1..Len(blocks) :
          /\ Count(DirectiveTexts(BlockDirectives(b)), {"-"}) =
                Count(BlockSource(b), DashVariants \cup {"-"})
          /\ blocks[b].kind = "CodeBlock" =>
                LET src == join(<<"\n">>, blocks[b].data)
                    txt == story[blocks[b].first + 1].text
                IN  /\ Len(txt) = Len(src)
                    /\ \A k \in 1..Len(src) :
                          txt[k] = IF src[k] \in DashVariants THEN "-" ELSE src[k]

\* reached: a heading and a code block that each gathered a dash variant and
\* hold a hyphen in its place
C15_Witness ==
    /\ Len(blocks) = 2
    /\ blocks[1].kind = "Heading"
    /\ blocks[2].kind = "CodeBlock"
    /\ Count(BlockSource(1), DashVariants) = 1
    /\ Count(BlockSource(2), DashVariants) = 1
    /\ story[blocks[1].first + 1].text = <<"-">>
    /\ Count(story[blocks[2].first + 1].text, {"-"}) = 1

\* C16: normalize_dashes is idempotent, normalize(normalize(s)) being
\* normalize(s) for every argument s of the translator; it returns a text of
\* the same length for every argument, and the text the translator normalized
\* is its argument with each of the seven dash variants replaced by an ASCII
\* hyphen and every other character unchanged.
C16_NormalizeIdempotent ==
    /\ normalize_dashes(normalize_dashes(text_in)) = normalize_dashes(text_in)
    /\ Len(normalize_dashes(text_in)) = Len(text_in)
    /\ ipc # "start" =>
          /\ Len(text) = Len(text_in)
          /\ \A k \in 1..Len(text_in) :
                text[k] = IF text_in[k] \in DashVariants THEN "-" ELSE text_in[k]
          /\ normalize_dashes(text) = text

\* reached: a text of minus signs and an asterisk normalized to hyphens around
\* the asterisk
C16_Witness ==
    /\ ipc = "loop"
    /\ text_in = <<"U2212", "*", "U2212">>
    /\ text = <<"-", "*", "-">>

----------------------------------------------------------------------------
(* Properties of the code fence branch *)

\* the index of the first fence line after the opening fence at f, the number
\* of lines if there is none
FenceClose(f) ==
    Min({k \in (f + 1)..(NumLines - 1) : CODE_FENCE_RE(LineAt(k))}
        \cup {NumLines})

\* C17: a CodeBlock opened by the fence at line f holds every line after f up
\* to the next fence line, whatever those lines match, and its range ends
\* after that closing fence; no line of the range is skipped or lies in
\* another gather, no gather starts on the closing fence, and the scan resumes
\* at the line after it.
C17_FenceGather ==
    \A b \in 1..Len(blocks) :
        blocks[b].kind = "CodeBlock" =>
            LET f == blocks[b].from
                close == FenceClose(f)
                to == IF close < NumLines THEN close + 1 ELSE NumLines
            IN  /\ CODE_FENCE_RE(LineAt(f))
                /\ blocks[b].data = SubSeq(md_lines, f + 2, close)
                /\ blocks[b].to = to
                /\ \A k \in f..(to - 1) : Covering(k) = {b} /\ k \notin skipped
                /\ \A c \in 1..Len(blocks) :
                      c # b => blocks[c].from \notin f..(to - 1)
                /\ b < Len(blocks) => blocks[b + 1].from >= to
                /\ (b = Len(blocks) /\ \A k \in skipped : k < to) => i = to

\* reached: a CodeBlock of three lines, a line that matches the heading
\* pattern between the opening and the closing fence
C17_Witness ==
    /\ built
    /\ NumLines = 3
    /\ Len(blocks) = 1
    /\ blocks[1].kind = "CodeBlock"
    /\ blocks[1].from = 0
    /\ blocks[1].to = 3
    /\ HEADING_RE(LineAt(1))
    /\ CODE_FENCE_RE(LineAt(2))
    /\ blocks[1].data = <<LineAt(1)>>

----------------------------------------------------------------------------
(* Properties of the Table directive *)

\* the Table directives of the story
Tables == {s \in 1..Len(story) : story[s].type = "Table"}

\* C18: every Table directive of the story has at least one row, its column
\* count, the length of its first row, is at least 1, so that the equal-width
\* division has a non-zero divisor and gives positive widths, and it has as
\* many column widths as each of its rows has cells.
C18_TableColumns ==
    \A s \in Tables :
        LET data == story[s].data
            widths == story[s].colWidths
        IN  /\ Len(data) >= 1
            /\ Len(data[1]) >= 1
            /\ Len(widths) = Len(data[1])
            /\ \A r \in 1..Len(data) : Len(data[r]) = Len(widths)
            /\ \A c \in 1..Len(widths) : widths[c] > 0

\* reached: a Table of two rows and four equal columns, the first row parsed
\* from a line of one cell
C18_Witness ==
    /\ tpc = "appended"
    /\ Len(story) = 2
    /\ story[1].type = "Table"
    /\ Len(story[1].data) = 2
    /\ story[1].colWidths = <<250, 250, 250, 250>>
    /\ Len(OrigCells(NthData(1))) = 1

----------------------------------------------------------------------------
(* Properties of the returned markup *)

\* the span a tag at k of s opens ("bold", "code"), or "none"
Opens(s, k) ==
    IF startswith(s, <<"<", "b", ">">>, k) THEN "bold"
    ELSE IF startswith(s, <<"<", "f", "o", "n", "t", " ">>, k) THEN "code"
    ELSE "none"

\* the span a tag at k of s closes, or "none"
Closes(s, k) ==
    IF startswith(s, <<"<", "/", "b", ">">>, k) THEN "bold"
    ELSE IF startswith(s, <<"<", "/", "f", "o", "n", "t", ">">>, k) THEN "code"
    ELSE "none"

RECURSIVE Balanced(_, _, _)
\* read from k on with the span open standing open ("none" for no span): a
\* tag opens only when no span is open, a closing tag closes the span that is
\* open, and no span is open at the end
Balanced(s, k, open) ==
    IF k > Len(s) THEN open = "none"
    ELSE IF Opens(s, k) # "none"
    THEN open = "none" /\ Balanced(s, k + 1, Opens(s, k))
    ELSE IF Closes(s, k) # "none"
    THEN open = Closes(s, k) /\ Balanced(s, k + 1, "none")
    ELSE Balanced(s, k + 1, open)

\* the number of places of s where p occurs
Occurrences(s, p) == Cardinality({k \in 1..Len(s) : startswith(s, p, k)})

\* C19: the returned markup is balanced and never nested: each opening bold
\* or Courier tag is closed by its own closing tag before another one opens,
\* and there is one such pair per code or bold run; a backtick inside a bold
\* span and a double asterisk inside a code span stay literal text.  The
\* line-break tag, which opens nothing, is the only tag a span can hold.
C19_BalancedMarkup ==
    ipc = "done" =>
        /\ Balanced(result, 1, "none")
        /\ Occurrences(result, <<"<", "b", ">">>) =
              Cardinality({r \in 1..Len(runs) : runs[r].kind = "bold"})
        /\ Occurrences(result, <<"<", "f", "o", "n", "t", " ">>) =
              Cardinality({r \in 1..Len(runs) : runs[r].kind = "code"})
        /\ \A r \in 1..Len(runs) :
              /\ Opens(RunContent(r), 1) = "none"
              /\ Occurrences(RunContent(r), <<"<">>) = 0
              /\ runs[r].kind = "bold" =>
                    Count(RunContent(r), {"TICK"}) = Count(RunSource(r), {"TICK"})
              /\ runs[r].kind = "code" =>
                    Occurrences(RunContent(r), Stars) = Occurrences(RunSource(r), Stars)

\* reached: a bold span whose content is a backtick, returned as one tag pair
\* around the backtick
C19_Witness ==
    /\ ipc = "done"
    /\ text = <<"*", "*", "TICK", "*", "*">>
    /\ Len(runs) = 1
    /\ runs[1].kind = "bold"
    /\ result = <<"<", "b", ">", "TICK", "<", "/", "b", ">">>

====
